---- MODULE Spec2Model ----
(***************************************************************************)
(* A model of the RADIUS client of radius/src/client.rs: one Client with   *)
(* its two optional timeouts, and the exchange that Client::send_packet    *)
(* performs (bind, connect, encode, send, recv, decode).  Every await of   *)
(* the async fn is a suspension point: the operation is polled once when   *)
(* it starts and either is ready at once or stays pending until the I/O    *)
(* completes or the tokio timeout wrapping it elapses.                     *)
(***************************************************************************)
EXTENDS Integers, Sequences, FiniteSets, TLC

\* ---------------------------------------------------------------- bounds
MaxDur == 1        \* largest configured timeout, in clock ticks
MaxTime == 2       \* ticks the clock may advance with no timer running
MaxCalls == 2      \* send_packet calls made on the one Client
MaxTasks == 2      \* tasks that call send_packet concurrently

\* ------------------------------------------------------------- constants
MAX_DATAGRAM_SIZE == 65507

\* ------------------------------------------------------------ data types
\* Option<Duration>
None == [some |-> FALSE, d |-> 0]
Some(d) == [some |-> TRUE, d |-> d]
Durations == {None} \cup {Some(d) : d \in 0..MaxDur}

\* SocketAddr, by address family only
Families == {"v4", "v6"}
Secrets == {"s1", "s2"}

\* byte strings, abstractly: a length, what the bytes say, and the secret
\* their authenticator was computed with
NoBytes == [len |-> 0, body |-> "none", auth |-> "none"]
Lens == {20, MAX_DATAGRAM_SIZE, MAX_DATAGRAM_SIZE + 1}
Bodies == {"accept", "garbage"}
Datagrams == [len : Lens, body : Bodies, auth : Secrets]

\* Packet: the secret it carries and its content
NoPacket == [secret |-> "none", body |-> "none"]
RequestPackets == [secret : Secrets, body : {"request", "invalid"}]

\* Packet::encode: fails on a packet that cannot be serialized
Encode(p) ==
    IF p.body = "invalid"
    THEN [ok |-> FALSE, data |-> NoBytes]
    ELSE [ok |-> TRUE, data |-> [len |-> 20, body |-> p.body, auth |-> p.secret]]

\* Packet::decode: fails on malformed bytes and on bytes whose authenticator
\* does not validate against the supplied secret
Decode(bytes, secret) ==
    IF bytes.body = "garbage" \/ bytes.auth # secret
    THEN [ok |-> FALSE, packet |-> NoPacket]
    ELSE [ok |-> TRUE, packet |-> [secret |-> secret, body |-> bytes.body]]

\* ClientError, by variant
ErrorKinds == {"FailedUdpSocketBindingError",
               "FailedEstablishingUdpConnectionError",
               "FailedRadiusPacketEncodingError",
               "FailedSendingRadiusPacketError",
               "FailedReceivingResponseError",
               "FailedDecodingRadiusResponseError",
               "ConnectionTimeoutError",
               "SocketTimeoutError"}

\* Result<Packet, ClientError>
NoOutcome == [kind |-> "none", packet |-> NoPacket]
Ok(p) == [kind |-> "Ok", packet |-> p]
Err(k) == [kind |-> k, packet |-> NoPacket]

\* LocalAddrFor with the IPv4 wildcard for every remote
LocalAddrFor_V4Only(remote) == [ip |-> "0.0.0.0", port |-> 0]

\* the wildcard address of the remote's family, port 0
LocalAddrFor(remote) ==
    IF remote = "v4" THEN [ip |-> "0.0.0.0", port |-> 0]
                     ELSE [ip |-> "[::]", port |-> 0]
NoAddr == [ip |-> "none", port |-> 0]

Min(a, b) == IF a <= b THEN a ELSE b

\* buf[..len]
Take(dg, n) == [dg EXCEPT !.len = n]

\* RecvLen with the whole buffer returned, not buf[..len]
RecvLen_WholeBuffer(dg) == MAX_DATAGRAM_SIZE

\* conn.recv(&mut buf) on a buffer of MAX_DATAGRAM_SIZE bytes
RecvLen(dg) == Min(dg.len, MAX_DATAGRAM_SIZE)

\* ----------------------------------------------------------------- state
VARIABLES
    connection_timeout,   \* Client.connection_timeout
    socket_timeout,       \* Client.socket_timeout
    calls,                \* send_packet calls made so far
    remote_addr,          \* argument of the call in progress
    request_packet,       \* argument of the call in progress
    pc,                   \* state of the exchange
    io,                   \* "idle", or "pending": suspended on an I/O future
    now,                  \* clock of the call
    timer,                \* the tokio timeout in force, if any
    local_addr,           \* address handed to UdpSocket::bind
    conn,                 \* the UdpSocket: "none", "open", "closed"
    request_data,         \* encoded request
    response,             \* bytes returned by request()
    outcome,              \* value returned by send_packet
    steps,                \* steps started in this exchange, in order
    results,              \* <<step, "ok" or "err">> of the steps that returned
    wire,                 \* datagrams transmitted on conn
    delivered,            \* datagrams the socket handed to recv
    closes,               \* times conn was closed
    decode_args,          \* arguments Packet::decode was called with
    suspended,            \* steps whose first poll returned Pending
    late,                 \* abandoned operations that completed after the return
    sock,                 \* id of the socket conn holds, 0 before the bind
    sockets,              \* the open UDP sockets of the host
    uses,                 \* <<task, owner>>: a task operated on owner's socket
    cur,                  \* the task whose locals the variables above hold
    parked                \* the locals of the other tasks

vars == <<connection_timeout, socket_timeout, calls, remote_addr,
          request_packet, pc, io, now, timer, local_addr, conn,
          request_data, response, outcome, steps, results, wire, delivered,
          closes, decode_args, suspended, late, sock, sockets, uses, cur,
          parked>>

config == <<connection_timeout, socket_timeout>>
args == <<remote_addr, request_packet, local_addr>>
sched == <<cur, parked>>

\* the id the host gives the next socket: the lowest one not in use
NewSock ==
    LET ids == {s.id : s \in sockets}
    IN CHOOSE i \in 1..(Cardinality(sockets) + 1) :
           i \notin ids /\ \A j \in 1..(i - 1) : j \in ids

\* the task that bound socket i, 0 if the socket is not open
OwnerOf(i) ==
    IF \E s \in sockets : s.id = i
    THEN (CHOOSE s \in sockets : s.id = i).owner
    ELSE 0

\* the current task operates on the socket its conn holds
Use == uses \cup {<<cur, OwnerOf(sock)>>}

NoTimer == [kind |-> "none", since |-> 0, at |-> 0]
\* Expired with a deadline that never elapses
Expired_Never == FALSE

\* the Sleep of the timeout in force has reached its deadline
Expired == timer.kind # "none" /\ now >= timer.at
Terminal == pc \in {"Decoded", "Failed"}
Res(ok) == IF ok THEN "ok" ELSE "err"

\* Arm with a zero duration clamped to one tick
Arm_Clamped(kind, d) ==
    [kind |-> kind, since |-> now, at |-> now + (IF d = 0 THEN 1 ELSE d)]

\* Arm with the duration clamped to at least one further tick
Arm_Late(kind, d) == [kind |-> kind, since |-> now, at |-> now + d + 1]

\* tokio::time::timeout(d, fut): the Sleep is created with deadline now + d
Arm(kind, d) == [kind |-> kind, since |-> now, at |-> now + d]

\* ConnectionTimer with None read as the default duration
ConnectionTimer_Default == Arm("connection", connection_timeout.d)

\* match self.connection_timeout { Some(t) => timeout(t, ..), None => .. }
ConnectionTimer ==
    IF connection_timeout.some
    THEN Arm("connection", connection_timeout.d)
    ELSE NoTimer

\* SocketTimer as one overall deadline, counted from the start of the call
SocketTimer_FromCallStart ==
    IF socket_timeout.some
    THEN [kind |-> "socket", since |-> 0, at |-> socket_timeout.d]
    ELSE NoTimer

\* match self.socket_timeout { Some(t) => timeout(t, ..), None => .. }
SocketTimer ==
    IF socket_timeout.some
    THEN Arm("socket", socket_timeout.d)
    ELSE NoTimer

\* no call has been made: no task, no socket
NoCall ==
    /\ calls = 0
    /\ sockets = {}
    /\ uses = {}
    /\ cur = 1

\* the locals of a task that is not in a call
NoExchange ==
    /\ remote_addr = "v4"
    /\ request_packet = NoPacket
    /\ pc = "Idle"
    /\ io = "idle"
    /\ now = 0
    /\ timer = NoTimer
    /\ local_addr = NoAddr
    /\ conn = "none"
    /\ request_data = NoBytes
    /\ response = NoBytes
    /\ outcome = NoOutcome
    /\ steps = <<>>
    /\ results = <<>>
    /\ wire = <<>>
    /\ delivered = <<>>
    /\ closes = 0
    /\ decode_args = <<>>
    /\ suspended = {}
    /\ late = {}
    /\ sock = 0

\* Client::new
Init ==
    /\ connection_timeout \in Durations
    /\ socket_timeout \in Durations
    /\ NoCall
    /\ parked = <<>>
    /\ NoExchange

\* Call with the buffers of the previous exchange kept by the Client
Call_KeepData(remote, packet) ==
    /\ pc \in {"Idle", "Decoded", "Failed"}
    /\ calls < MaxCalls
    /\ calls' = calls + 1
    /\ remote_addr' = remote
    /\ request_packet' = packet
    /\ local_addr' = LocalAddrFor(remote)
    /\ pc' = "Created"
    /\ io' = "idle"
    /\ now' = 0
    /\ timer' = NoTimer
    /\ conn' = "none"
    /\ outcome' = NoOutcome
    /\ steps' = <<>>
    /\ results' = <<>>
    /\ wire' = <<>>
    /\ delivered' = <<>>
    /\ closes' = 0
    /\ decode_args' = <<>>
    /\ suspended' = {}
    /\ late' = {}
    /\ sock' = 0
    /\ UNCHANGED <<request_data, response>>
    /\ UNCHANGED <<config, sockets, uses, sched>>

\* the caller invokes send_packet(remote, packet) on the Client
Call(remote, packet) ==
    /\ pc \in {"Idle", "Decoded", "Failed"}
    /\ calls < MaxCalls
    /\ calls' = calls + 1
    /\ remote_addr' = remote
    /\ request_packet' = packet
    /\ local_addr' = LocalAddrFor(remote)
    /\ pc' = "Created"
    /\ io' = "idle"
    /\ now' = 0
    /\ timer' = NoTimer
    /\ conn' = "none"
    /\ request_data' = NoBytes
    /\ response' = NoBytes
    /\ outcome' = NoOutcome
    /\ steps' = <<>>
    /\ results' = <<>>
    /\ wire' = <<>>
    /\ delivered' = <<>>
    /\ closes' = 0
    /\ decode_args' = <<>>
    /\ suspended' = {}
    /\ late' = {}
    /\ sock' = 0
    /\ UNCHANGED <<config, sockets, uses, sched>>

\* DropConn with the socket leaked on return
DropConn_Leak == UNCHANGED <<conn, closes, sockets>>

\* conn goes out of scope when send_packet returns: the socket is closed
DropConn ==
    /\ conn' = IF conn = "open" THEN "closed" ELSE conn
    /\ closes' = IF conn = "open" THEN closes + 1 ELSE closes
    /\ sockets' = IF conn = "open"
                  THEN {s \in sockets : s.id # sock}
                  ELSE sockets

\* return r: the function ends, a timeout still in force and conn are dropped
Return(r) ==
    /\ pc' = IF r.kind = "Ok" THEN "Decoded" ELSE "Failed"
    /\ outcome' = r
    /\ io' = "idle"
    /\ timer' = NoTimer
    /\ DropConn

\* Bind with one socket kept for the Client: a call made while a socket is
\* open takes that socket instead of binding its own
Bind_Shared(ok) ==
    /\ pc = "Created"
    /\ steps' = Append(steps, "bind")
    /\ results' = Append(results, <<"bind", Res(ok)>>)
    /\ IF ok
       THEN /\ pc' = "Bound"
            /\ conn' = "open"
            /\ IF sockets = {}
               THEN /\ sock' = NewSock
                    /\ sockets' = {[id |-> NewSock, owner |-> cur,
                                    local |-> local_addr]}
               ELSE /\ sock' = (CHOOSE s \in sockets : TRUE).id
                    /\ UNCHANGED sockets
            /\ uses' = uses \cup {<<cur, cur>>}
            /\ UNCHANGED <<outcome, io, timer, closes>>
       ELSE /\ Return(Err("FailedUdpSocketBindingError"))
            /\ UNCHANGED <<sock, uses>>
    /\ UNCHANGED <<config, args, calls, now, request_data, response, wire,
                   delivered, decode_args, suspended, late, sched>>

\* UdpSocket::bind(local_addr).await
Bind(ok) ==
    /\ pc = "Created"
    /\ steps' = Append(steps, "bind")
    /\ results' = Append(results, <<"bind", Res(ok)>>)
    /\ IF ok
       THEN /\ pc' = "Bound"
            /\ conn' = "open"
            /\ sock' = NewSock
            /\ sockets' = sockets \cup {[id |-> NewSock, owner |-> cur,
                                         local |-> local_addr]}
            /\ uses' = uses \cup {<<cur, cur>>}
            /\ UNCHANGED <<outcome, io, timer, closes>>
       ELSE /\ Return(Err("FailedUdpSocketBindingError"))
            /\ UNCHANGED <<sock, uses>>
    /\ UNCHANGED <<config, args, calls, now, request_data, response, wire,
                   delivered, decode_args, suspended, late, sched>>

\* the I/O results a poll of connect or send can report
IoResults == {"ok", "err", "pending"}

\* ConnectResult without the ? of line 102: a failed connect is not returned
ConnectResult_NoTry(ok) ==
    /\ pc' = "Associated"
    /\ io' = "idle"
    /\ timer' = NoTimer
    /\ UNCHANGED <<outcome, conn, closes, sockets>>

\* Client::connect returned, and the ? after the match
ConnectResult(ok) ==
    IF ok
    THEN /\ pc' = "Associated"
         /\ io' = "idle"
         /\ timer' = NoTimer
         /\ UNCHANGED <<outcome, conn, closes, sockets>>
    ELSE Return(Err("FailedEstablishingUdpConnectionError"))

\* the connect step begins and its future is polled once
ConnectStart(r) ==
    /\ pc = "Bound"
    /\ io = "idle"
    /\ steps' = Append(steps, "associate")
    /\ IF r = "pending"
       THEN /\ io' = "pending"
            /\ timer' = ConnectionTimer
            /\ suspended' = suspended \cup {"associate"}
            /\ UNCHANGED <<pc, results, outcome, conn, closes, sockets>>
       ELSE /\ results' = Append(results, <<"associate", r>>)
            /\ ConnectResult(r = "ok")
            /\ UNCHANGED suspended
    /\ uses' = Use
    /\ UNCHANGED <<sched, late, sock>>
    /\ UNCHANGED <<config, args, calls, now, request_data, response, wire,
                   delivered, decode_args>>

\* the pending connect completes before the timeout elapses
ConnectComplete(ok) ==
    /\ pc = "Bound"
    /\ io = "pending"
    /\ ~Expired
    /\ results' = Append(results, <<"associate", Res(ok)>>)
    /\ ConnectResult(ok)
    /\ UNCHANGED <<sched, late, sock, uses>>
    /\ UNCHANGED <<config, args, calls, now, request_data, response, wire,
                   delivered, decode_args, steps, suspended>>

\* ConnectTimeout with the elapsed timeout reported as a connect failure
ConnectTimeout_AsConnectError ==
    /\ pc = "Bound"
    /\ io = "pending"
    /\ timer.kind = "connection"
    /\ Expired
    /\ Return(Err("FailedEstablishingUdpConnectionError"))
    /\ UNCHANGED <<sched, late, sock, uses>>
    /\ UNCHANGED <<config, args, calls, now, request_data, response, wire,
                   delivered, decode_args, steps, results, suspended>>

\* timeout(connection_timeout, ..) elapsed: Err(_) => ConnectionTimeoutError
ConnectTimeout ==
    /\ pc = "Bound"
    /\ io = "pending"
    /\ timer.kind = "connection"
    /\ Expired
    /\ Return(Err("ConnectionTimeoutError"))
    /\ UNCHANGED <<sched, late, sock, uses>>
    /\ UNCHANGED <<config, args, calls, now, request_data, response, wire,
                   delivered, decode_args, steps, results, suspended>>

\* EncodeStep with an encode failure replaced by empty data, not returned
EncodeStep_IgnoreErr ==
    /\ pc = "Associated"
    /\ steps' = Append(steps, "encode")
    /\ LET e == Encode(request_packet) IN
       /\ results' = Append(results, <<"encode", Res(e.ok)>>)
       /\ pc' = "Encoded"
       /\ request_data' = e.data
       /\ UNCHANGED <<outcome, io, timer, conn, closes, sockets>>
    /\ UNCHANGED <<sched, late, sock, uses>>
    /\ UNCHANGED <<config, args, calls, now, response, wire, delivered,
                   decode_args, suspended>>

\* request_packet.encode()
EncodeStep ==
    /\ pc = "Associated"
    /\ steps' = Append(steps, "encode")
    /\ LET e == Encode(request_packet) IN
       /\ results' = Append(results, <<"encode", Res(e.ok)>>)
       /\ IF e.ok
          THEN /\ pc' = "Encoded"
               /\ request_data' = e.data
               /\ UNCHANGED <<outcome, io, timer, conn, closes, sockets>>
          ELSE /\ Return(Err("FailedRadiusPacketEncodingError"))
               /\ UNCHANGED request_data
    /\ UNCHANGED <<sched, late, sock, uses>>
    /\ UNCHANGED <<config, args, calls, now, response, wire, delivered,
                   decode_args, suspended>>

\* SendResult with the timeout looked at before the result of the send
SendResult_TimerFirst(ok, t) ==
    IF t.kind = "socket" /\ now >= t.at
    THEN /\ Return(Err("SocketTimeoutError"))
         /\ UNCHANGED wire
    ELSE IF ok
    THEN /\ pc' = "Sent"
         /\ wire' = Append(wire, request_data)
         /\ io' = "idle"
         /\ timer' = t
         /\ UNCHANGED <<outcome, conn, closes, sockets>>
    ELSE /\ Return(Err("FailedSendingRadiusPacketError"))
         /\ UNCHANGED wire

\* conn.send(request_data) returned; t is the timeout in force
SendResult(ok, t) ==
    IF ok
    THEN /\ pc' = "Sent"
         /\ wire' = Append(wire, request_data)
         /\ io' = "idle"
         /\ timer' = t
         /\ UNCHANGED <<outcome, conn, closes, sockets>>
    ELSE /\ Return(Err("FailedSendingRadiusPacketError"))
         /\ UNCHANGED wire

\* the request step begins and conn.send is polled once
SendStart(r) ==
    /\ pc = "Encoded"
    /\ io = "idle"
    /\ steps' = Append(steps, "send")
    /\ IF r = "pending"
       THEN /\ io' = "pending"
            /\ timer' = SocketTimer
            /\ suspended' = suspended \cup {"send"}
            /\ UNCHANGED <<pc, results, wire, outcome, conn, closes, sockets>>
       ELSE /\ results' = Append(results, <<"send", r>>)
            /\ SendResult(r = "ok", SocketTimer)
            /\ UNCHANGED suspended
    /\ uses' = Use
    /\ UNCHANGED <<sched, late, sock>>
    /\ UNCHANGED <<config, args, calls, now, request_data, response,
                   delivered, decode_args>>

\* the pending send completes before the timeout elapses
SendComplete(ok) ==
    /\ pc = "Encoded"
    /\ io = "pending"
    /\ ~Expired
    /\ results' = Append(results, <<"send", Res(ok)>>)
    /\ SendResult(ok, timer)
    /\ UNCHANGED <<sched, late, sock, uses>>
    /\ UNCHANGED <<config, args, calls, now, request_data, response,
                   delivered, decode_args, steps, suspended>>

\* what a poll of conn.recv can report
RecvResults ==
    {[tag |-> "pending", dg |-> NoBytes], [tag |-> "err", dg |-> NoBytes]}
    \cup {[tag |-> "ok", dg |-> d] : d \in Datagrams}

\* RecvResult with a receive failure reported under the send error variant
RecvResult_WrongKind(r) ==
    IF r.tag = "ok"
    THEN /\ pc' = "Received"
         /\ response' = Take(r.dg, RecvLen(r.dg))
         /\ delivered' = Append(delivered, r.dg)
         /\ io' = "idle"
         /\ timer' = NoTimer
         /\ UNCHANGED <<outcome, conn, closes, sockets>>
    ELSE /\ Return(Err("FailedSendingRadiusPacketError"))
         /\ UNCHANGED <<response, delivered>>

\* conn.recv(&mut buf) returned: Ok(len) => Ok(buf[..len].to_vec()), and the
\* ? after the match
RecvResult(r) ==
    IF r.tag = "ok"
    THEN /\ pc' = "Received"
         /\ response' = Take(r.dg, RecvLen(r.dg))
         /\ delivered' = Append(delivered, r.dg)
         /\ io' = "idle"
         /\ timer' = NoTimer
         /\ UNCHANGED <<outcome, conn, closes, sockets>>
    ELSE /\ Return(Err("FailedReceivingResponseError"))
         /\ UNCHANGED <<response, delivered>>

\* after the send, conn.recv is polled once
RecvStart(r) ==
    /\ pc = "Sent"
    /\ io = "idle"
    /\ steps' = Append(steps, "receive")
    /\ IF r.tag = "pending"
       THEN /\ io' = "pending"
            /\ suspended' = suspended \cup {"receive"}
            /\ UNCHANGED <<pc, response, delivered, results, timer, outcome,
                           conn, closes, sockets>>
       ELSE /\ results' = Append(results, <<"receive", r.tag>>)
            /\ RecvResult(r)
            /\ UNCHANGED suspended
    /\ uses' = Use
    /\ UNCHANGED <<sched, late, sock>>
    /\ UNCHANGED <<config, args, calls, now, request_data, wire,
                   decode_args>>

\* the pending recv completes before the timeout elapses
RecvComplete(r) ==
    /\ pc = "Sent"
    /\ io = "pending"
    /\ ~Expired
    /\ r.tag # "pending"
    /\ results' = Append(results, <<"receive", r.tag>>)
    /\ RecvResult(r)
    /\ UNCHANGED <<sched, late, sock, uses>>
    /\ UNCHANGED <<config, args, calls, now, request_data, wire,
                   decode_args, steps, suspended>>

\* SocketTimeout with the request sent again instead of the error returned
SocketTimeout_Retry ==
    /\ pc \in {"Encoded", "Sent"}
    /\ io = "pending"
    /\ timer.kind = "socket"
    /\ Expired
    /\ pc' = "Encoded"
    /\ io' = "idle"
    /\ timer' = NoTimer
    /\ UNCHANGED <<outcome, conn, closes, sockets>>
    /\ UNCHANGED <<sched, late, sock, uses>>
    /\ UNCHANGED <<config, args, calls, now, request_data, response, wire,
                   delivered, decode_args, steps, results, suspended>>

\* SocketTimeout with the deadline looked at before the operation is polled
SocketTimeout_Eager ==
    /\ pc \in {"Encoded", "Sent"}
    /\ timer.kind = "socket"
    /\ Expired
    /\ Return(Err("SocketTimeoutError"))
    /\ UNCHANGED <<sched, late, sock, uses>>
    /\ UNCHANGED <<config, args, calls, now, request_data, response, wire,
                   delivered, decode_args, steps, results, suspended>>

\* timeout(socket_timeout, ..) elapsed: Err(_) => SocketTimeoutError
SocketTimeout ==
    /\ pc \in {"Encoded", "Sent"}
    /\ io = "pending"
    /\ timer.kind = "socket"
    /\ Expired
    /\ Return(Err("SocketTimeoutError"))
    /\ UNCHANGED <<sched, late, sock, uses>>
    /\ UNCHANGED <<config, args, calls, now, request_data, response, wire,
                   delivered, decode_args, steps, results, suspended>>

\* DecodeSecret with a fixed secret in place of the request's
DecodeSecret_Fixed == "s1"

\* request_packet.get_secret()
DecodeSecret == request_packet.secret

\* Packet::decode(&response.to_vec(), request_packet.get_secret())
DecodeStep ==
    /\ pc = "Received"
    /\ steps' = Append(steps, "decode")
    /\ decode_args' = Append(decode_args, <<response, DecodeSecret>>)
    /\ LET r == Decode(response, DecodeSecret) IN
       /\ results' = Append(results, <<"decode", Res(r.ok)>>)
       /\ IF r.ok
          THEN Return(Ok(r.packet))
          ELSE Return(Err("FailedDecodingRadiusResponseError"))
    /\ UNCHANGED <<sched, late, sock, uses>>
    /\ UNCHANGED <<config, args, calls, now, request_data, response, wire,
                   delivered, suspended>>

\* LateCompletion with the abandoned operation taken up again
LateCompletion_Resumes ==
    /\ pc = "Failed"
    /\ outcome.kind \in {"ConnectionTimeoutError", "SocketTimeoutError"}
    /\ steps[Len(steps)] \notin late
    /\ late' = late \cup {steps[Len(steps)]}
    /\ pc' = IF steps[Len(steps)] = "associate" THEN "Associated" ELSE "Sent"
    /\ outcome' = NoOutcome
    /\ UNCHANGED <<config, args, calls, sched, sock, uses, io, now, timer,
                   conn, request_data, response, steps, results, wire,
                   delivered, closes, decode_args, suspended, sockets>>

\* the operation a timeout abandoned completes after send_packet returned
\* (the association is made, the datagram goes out, a reply arrives): its
\* future was dropped with the timeout and the socket is closed
LateCompletion ==
    /\ pc = "Failed"
    /\ outcome.kind \in {"ConnectionTimeoutError", "SocketTimeoutError"}
    /\ steps[Len(steps)] \notin late
    /\ late' = late \cup {steps[Len(steps)]}
    /\ UNCHANGED <<config, args, calls, sched, sock, uses, pc, io, now, timer,
                   conn, request_data, response, outcome, steps, results,
                   wire, delivered, closes, decode_args, suspended, sockets>>

\* time passes while the call is in progress
Tick ==
    /\ pc \notin {"Idle", "Decoded", "Failed"}
    /\ \/ now < MaxTime
       \/ timer.kind # "none" /\ now < timer.at
    /\ now' = now + 1
    /\ UNCHANGED <<sched, late, sock, uses>>
    /\ UNCHANGED <<config, args, calls, pc, io, timer, conn, request_data,
                   response, outcome, steps, results, wire, delivered,
                   closes, decode_args, suspended, sockets>>

Next ==
    \/ \E remote \in Families, packet \in RequestPackets : Call(remote, packet)
    \/ \E ok \in BOOLEAN : Bind(ok)
    \/ \E r \in IoResults : ConnectStart(r)
    \/ \E ok \in BOOLEAN : ConnectComplete(ok)
    \/ ConnectTimeout
    \/ EncodeStep
    \/ \E r \in IoResults : SendStart(r)
    \/ \E ok \in BOOLEAN : SendComplete(ok)
    \/ \E r \in RecvResults : RecvStart(r)
    \/ \E r \in RecvResults : RecvComplete(r)
    \/ SocketTimeout
    \/ DecodeStep
    \/ LateCompletion
    \/ Tick

Spec == Init /\ [][Next]_vars

\* the runtime polls a task that can run, time passes, and a timeout whose
\* deadline has passed returns Err(Elapsed); nothing obliges the peer or the
\* network to complete a pending connect, send or recv
Fairness ==
    /\ WF_vars(\E ok \in BOOLEAN : Bind(ok))
    /\ WF_vars(\E r \in IoResults : ConnectStart(r))
    /\ WF_vars(EncodeStep)
    /\ WF_vars(\E r \in IoResults : SendStart(r))
    /\ WF_vars(\E r \in RecvResults : RecvStart(r))
    /\ WF_vars(DecodeStep)
    /\ WF_vars(ConnectTimeout)
    /\ WF_vars(SocketTimeout)
    /\ WF_vars(Tick)

SpecFair == Init /\ [][Next]_vars /\ Fairness

\* ------------------------------------------------- concurrent exchanges
\* the locals of the call the current task is in
Locals ==
    [remote_addr |-> remote_addr, request_packet |-> request_packet,
     pc |-> pc, io |-> io, now |-> now, timer |-> timer,
     local_addr |-> local_addr, conn |-> conn,
     request_data |-> request_data, response |-> response,
     outcome |-> outcome, steps |-> steps, results |-> results,
     wire |-> wire, delivered |-> delivered, closes |-> closes,
     decode_args |-> decode_args, suspended |-> suspended, late |-> late,
     sock |-> sock]

\* the locals of a task that has not called send_packet yet
IdleLocals ==
    [remote_addr |-> "v4", request_packet |-> NoPacket,
     pc |-> "Idle", io |-> "idle", now |-> 0, timer |-> NoTimer,
     local_addr |-> NoAddr, conn |-> "none",
     request_data |-> NoBytes, response |-> NoBytes,
     outcome |-> NoOutcome, steps |-> <<>>, results |-> <<>>,
     wire |-> <<>>, delivered |-> <<>>, closes |-> 0,
     decode_args |-> <<>>, suspended |-> {}, late |-> {},
     sock |-> 0]

\* the runtime runs task t next: send_packet takes &self, so calls of
\* several tasks on one Client interleave at any point
Switch(t) ==
    /\ t \in DOMAIN parked
    /\ cur' = t
    /\ parked' = [u \in (DOMAIN parked \ {t}) \cup {cur} |->
                     IF u = cur THEN Locals ELSE parked[u]]
    /\ remote_addr' = parked[t].remote_addr
    /\ request_packet' = parked[t].request_packet
    /\ pc' = parked[t].pc
    /\ io' = parked[t].io
    /\ now' = parked[t].now
    /\ timer' = parked[t].timer
    /\ local_addr' = parked[t].local_addr
    /\ conn' = parked[t].conn
    /\ request_data' = parked[t].request_data
    /\ response' = parked[t].response
    /\ outcome' = parked[t].outcome
    /\ steps' = parked[t].steps
    /\ results' = parked[t].results
    /\ wire' = parked[t].wire
    /\ delivered' = parked[t].delivered
    /\ closes' = parked[t].closes
    /\ decode_args' = parked[t].decode_args
    /\ suspended' = parked[t].suspended
    /\ late' = parked[t].late
    /\ sock' = parked[t].sock
    /\ UNCHANGED <<config, calls, sockets, uses>>

\* the timeouts, requests and I/O results of the concurrent exchanges:
\* only the wait for the reply suspends a task
ConcDurations == {None, Some(0)}
ConcPackets == {[secret |-> "s1", body |-> "request"]}
ConcIoResults == {"ok", "err"}
ConcRecvResults ==
    {[tag |-> "pending", dg |-> NoBytes], [tag |-> "err", dg |-> NoBytes],
     [tag |-> "ok", dg |-> [len |-> 20, body |-> "accept", auth |-> "s1"]]}

\* Client::new, and MaxTasks tasks that share the Client
InitConc ==
    /\ connection_timeout = None
    /\ socket_timeout \in ConcDurations
    /\ NoCall
    /\ parked = [t \in 2..MaxTasks |-> IdleLocals]
    /\ NoExchange

NextConc ==
    \/ \E packet \in ConcPackets : Call("v4", packet)
    \/ \E ok \in BOOLEAN : Bind(ok)
    \/ \E r \in ConcIoResults : ConnectStart(r)
    \/ EncodeStep
    \/ \E r \in ConcIoResults : SendStart(r)
    \/ \E r \in ConcRecvResults : RecvStart(r)
    \/ \E r \in ConcRecvResults : RecvComplete(r)
    \/ SocketTimeout
    \/ DecodeStep
    \/ \E t \in 1..MaxTasks : Switch(t)

SpecConc == InitConc /\ [][NextConc]_vars

\* ------------------------------------------------------------ properties
TypeOK ==
    /\ connection_timeout \in Durations
    /\ socket_timeout \in Durations
    /\ calls \in 0..MaxCalls
    /\ pc \in {"Idle", "Created", "Bound", "Associated", "Encoded", "Sent",
               "Received", "Decoded", "Failed"}
    /\ io \in {"idle", "pending"}
    /\ conn \in {"none", "open", "closed"}
    /\ outcome.kind \in {"none", "Ok"} \cup ErrorKinds

\* the steps of an exchange, in the order send_packet performs them
StepOrder == <<"bind", "associate", "encode", "send", "receive", "decode">>

IsPrefix(s, t) == Len(s) <= Len(t) /\ \A i \in 1..Len(s) : s[i] = t[i]

\* the steps that returned successfully, in order
OkSteps ==
    LET s == SelectSeq(results, LAMBDA e : e[2] = "ok")
    IN [i \in 1..Len(s) |-> s[i][1]]

\* position of a state in Created -> Bound -> .. -> Decoded | Failed
Rank(p) ==
    CASE p = "Idle" -> 0
      [] p = "Created" -> 1
      [] p = "Bound" -> 2
      [] p = "Associated" -> 3
      [] p = "Encoded" -> 4
      [] p = "Sent" -> 5
      [] p = "Received" -> 6
      [] p = "Decoded" -> 7
      [] p = "Failed" -> 7

\* C1: the steps of an exchange happen only in the order bind, associate,
\* encode, send, receive, decode: the steps started are a prefix of that
\* order (none skipped, none twice), a step starts only when every step
\* before it has succeeded, the state only moves forward, and once the
\* exchange is Failed or Decoded no further step is started.
C1_StrictSequence ==
    /\ [](/\ IsPrefix(steps, StepOrder)
          /\ IsPrefix(OkSteps, steps)
          /\ Len(steps) <= Len(OkSteps) + 1
          /\ (pc \notin {"Idle", "Failed"} => Rank(pc) = Len(OkSteps) + 1))
    /\ [][calls' = calls =>
            /\ Rank(pc') >= Rank(pc)
            /\ (pc' # pc => Rank(pc') > Rank(pc))
            /\ (steps' # steps => OkSteps = steps /\ ~Terminal)
            /\ (Terminal => steps' = steps /\ results' = results /\ pc' = pc)
         ]_vars

C1_Witness == pc = "Decoded" /\ steps = StepOrder /\ OkSteps = StepOrder

Range(f) == {f[i] : i \in DOMAIN f}
Count(f, x) == Cardinality({i \in DOMAIN f : f[i] = x})

\* C2: when request_packet.encode() fails, send_packet returns
\* FailedRadiusPacketEncodingError, no send was started and no datagram was
\* transmitted; the datagrams transmitted in an exchange only grow, so none
\* was transmitted in any earlier state of that exchange either.
C2_EncodeFailureSendsNothing ==
    /\ []((pc # "Idle" /\ "encode" \in Range(steps)
             /\ ~Encode(request_packet).ok) =>
            /\ pc = "Failed"
            /\ outcome.kind = "FailedRadiusPacketEncodingError"
            /\ wire = <<>>
            /\ "send" \notin Range(steps))
    /\ [](outcome.kind = "FailedRadiusPacketEncodingError" =>
            /\ ~Encode(request_packet).ok
            /\ wire = <<>>
            /\ "send" \notin Range(steps))
    /\ [][calls' = calls => IsPrefix(wire, wire')]_vars

C2_Witness ==
    /\ outcome.kind = "FailedRadiusPacketEncodingError"
    /\ request_packet.body = "invalid"
    /\ OkSteps = <<"bind", "associate">>

\* the association is pending and connection_timeout has run out since the
\* connect step began
AssocOverdue ==
    /\ pc = "Bound"
    /\ io = "pending"
    /\ connection_timeout.some
    /\ now >= timer.since + connection_timeout.d

\* C3: with a connection_timeout configured, once it has run out with the
\* association still pending, the only way the exchange goes on is by
\* returning ConnectionTimeoutError (never the connect error), and after
\* that error neither encode nor send is performed.
C3_ConnectionTimeout ==
    /\ [][AssocOverdue /\ now' = now =>
            /\ outcome'.kind = "ConnectionTimeoutError"
            /\ pc' = "Failed"
            /\ steps' = steps]_vars
    /\ [](outcome.kind = "ConnectionTimeoutError" =>
            /\ pc = "Failed"
            /\ steps = <<"bind", "associate">>
            /\ request_data = NoBytes
            /\ wire = <<>>)

C3_Witness ==
    /\ outcome.kind = "ConnectionTimeoutError"
    /\ connection_timeout = Some(MaxDur)
    /\ "associate" \in suspended

\* the request was sent, the reply is pending and socket_timeout has run
\* out since the request step began
ReplyOverdue ==
    /\ pc = "Sent"
    /\ io = "pending"
    /\ socket_timeout.some
    /\ now >= timer.since + socket_timeout.d

\* C4: with a socket_timeout configured, once it has run out after a
\* successful send with no reply and no receive failure, the only way the
\* exchange goes on is by returning SocketTimeoutError, and decode is never
\* called in an exchange that returns it.
C4_SocketTimeout ==
    /\ [][ReplyOverdue /\ now' = now =>
            /\ outcome'.kind = "SocketTimeoutError"
            /\ pc' = "Failed"
            /\ steps' = steps]_vars
    /\ [](outcome.kind = "SocketTimeoutError" =>
            /\ pc = "Failed"
            /\ "decode" \notin Range(steps)
            /\ decode_args = <<>>)

C4_Witness ==
    /\ outcome.kind = "SocketTimeoutError"
    /\ socket_timeout = Some(MaxDur)
    /\ OkSteps = <<"bind", "associate", "encode", "send">>
    /\ "receive" \in suspended

\* C5: whenever conn.send reported an error, the outcome of the exchange is
\* FailedSendingRadiusPacketError, whatever the socket timeout is and
\* whether or not its deadline has been reached.
C5_SendFailureIsSendError ==
    <<"send", "err">> \in Range(results) =>
        /\ pc = "Failed"
        /\ outcome.kind = "FailedSendingRadiusPacketError"

\* the send failed at a moment the socket timeout's deadline had been reached
C5_Witness ==
    /\ <<"send", "err">> \in Range(results)
    /\ socket_timeout = Some(0)
    /\ outcome.kind = "FailedSendingRadiusPacketError"

\* C6: with connection_timeout = None no timeout guards the association and
\* no exchange ends in ConnectionTimeoutError; with socket_timeout = None no
\* timeout guards the request and no exchange ends in SocketTimeoutError.
C6_NoTimeoutWithoutConfig ==
    /\ (~connection_timeout.some =>
            /\ outcome.kind # "ConnectionTimeoutError"
            /\ timer.kind # "connection")
    /\ (~socket_timeout.some =>
            /\ outcome.kind # "SocketTimeoutError"
            /\ timer.kind # "socket")

\* without timeouts the exchange is still waiting at the end of the clock
C6_Witness ==
    /\ connection_timeout = None
    /\ socket_timeout = None
    /\ "associate" \in suspended
    /\ pc = "Sent"
    /\ io = "pending"
    /\ now >= MaxTime

\* C7: an exchange performs exactly one bind and at most one association;
\* while the exchange runs its socket, once bound, is open and has never
\* been closed; in every terminal state the socket has been closed exactly
\* once, except after a failed bind, where there is no socket.
C7_SocketClosedOnce ==
    /\ Count(steps, "bind") <= 1
    /\ (pc \notin {"Idle", "Created"} => Count(steps, "bind") = 1)
    /\ Count(steps, "associate") <= 1
    /\ (~Terminal =>
            /\ closes = 0
            /\ conn = IF Rank(pc) >= 2 THEN "open" ELSE "none")
    /\ (Terminal =>
            IF outcome.kind = "FailedUdpSocketBindingError"
            THEN conn = "none" /\ closes = 0
            ELSE conn = "closed" /\ closes = 1)

C7_Witness ==
    /\ outcome.kind = "SocketTimeoutError"
    /\ conn = "closed"
    /\ closes = 1

\* C8: in one exchange at most one send and one receive are started, at most
\* one datagram is transmitted and at most one is received; a call that
\* returns a decoded packet transmitted exactly one datagram, the encoded
\* request, and received exactly one; after the exchange has ended nothing
\* more is sent or received.
C8_NoRetry ==
    /\ [](/\ Count(steps, "send") <= 1
          /\ Count(steps, "receive") <= 1
          /\ Len(wire) <= 1
          /\ Len(delivered) <= 1
          /\ (pc = "Decoded" =>
                /\ wire = <<request_data>>
                /\ Len(delivered) = 1))
    /\ [][Terminal /\ calls' = calls =>
            /\ wire' = wire
            /\ delivered' = delivered
            /\ steps' = steps]_vars

C8_Witness ==
    /\ pc = "Decoded"
    /\ Len(wire) = 1
    /\ Len(delivered) = 1
    /\ suspended = {"associate", "send", "receive"}

\* C9: Packet::decode is called at most once, with the bytes the receive
\* returned and the secret of the request packet of the same call; when
\* bind, association, encode, send and receive succeeded, the exchange ends
\* with exactly what Packet::decode yields for those bytes and that secret:
\* its packet unchanged, or FailedDecodingRadiusResponseError.
C9_DecodeOfReceived ==
    /\ Len(decode_args) <= 1
    /\ \A i \in DOMAIN decode_args :
            decode_args[i] = <<response, request_packet.secret>>
    /\ (Terminal /\ "receive" \in Range(OkSteps) =>
            /\ Len(decode_args) = 1
            /\ LET d == Decode(response, request_packet.secret) IN
               outcome = IF d.ok
                         THEN Ok(d.packet)
                         ELSE Err("FailedDecodingRadiusResponseError"))

C9_Witness ==
    /\ pc = "Decoded"
    /\ request_packet.secret = "s2"
    /\ outcome = Ok([secret |-> "s2", body |-> "accept"])
    /\ delivered = <<[len |-> 20, body |-> "accept", auth |-> "s2"]>>

\* the error variant a failed step is reported with
ErrorOf(step) ==
    CASE step = "bind" -> "FailedUdpSocketBindingError"
      [] step = "associate" -> "FailedEstablishingUdpConnectionError"
      [] step = "encode" -> "FailedRadiusPacketEncodingError"
      [] step = "send" -> "FailedSendingRadiusPacketError"
      [] step = "receive" -> "FailedReceivingResponseError"
      [] step = "decode" -> "FailedDecodingRadiusResponseError"

\* the step that a state performs next
StepOf(p) ==
    CASE p = "Created" -> "bind"
      [] p = "Bound" -> "associate"
      [] p = "Associated" -> "encode"
      [] p = "Encoded" -> "send"
      [] p = "Sent" -> "receive"
      [] p = "Received" -> "decode"

\* C10: an exchange has an outcome exactly when it has ended, a decoded
\* packet in Decoded and one error variant in Failed, and the outcome never
\* changes afterwards; the outcome is set by the step that ended the
\* exchange: the error variant of a step only when that step, performed in
\* its own state, reported an error, ConnectionTimeoutError only when the
\* connection timeout elapsed over a pending association, and
\* SocketTimeoutError only when the socket timeout elapsed over a pending
\* send or receive.
C10_OneOutcomePerCause ==
    /\ [](/\ (pc = "Decoded") = (outcome.kind = "Ok")
          /\ (pc = "Failed") = (outcome.kind \in ErrorKinds)
          /\ (~Terminal) = (outcome = NoOutcome)
          /\ (outcome.kind # "Ok" => outcome.packet = NoPacket))
    /\ [][Terminal /\ calls' = calls => outcome' = outcome]_vars
    /\ [][outcome = NoOutcome /\ outcome' # NoOutcome =>
            LET k == outcome'.kind IN
            /\ pc \notin {"Idle", "Decoded", "Failed"}
            /\ k = "ConnectionTimeoutError" =>
                    /\ pc = "Bound" /\ io = "pending"
                    /\ connection_timeout.some
                    /\ timer.kind = "connection" /\ now >= timer.at
                    /\ results' = results
            /\ k = "SocketTimeoutError" =>
                    /\ pc \in {"Encoded", "Sent"} /\ io = "pending"
                    /\ socket_timeout.some
                    /\ timer.kind = "socket" /\ now >= timer.at
                    /\ results' = results
            /\ k \notin {"ConnectionTimeoutError", "SocketTimeoutError", "Ok"} =>
                    /\ k = ErrorOf(StepOf(pc))
                    /\ results' = Append(results, <<StepOf(pc), "err">>)
            /\ k = "Ok" =>
                    /\ pc = "Received"
                    /\ results' = Append(results, <<"decode", "ok">>)
         ]_vars

C10_Witness ==
    /\ outcome.kind = "FailedReceivingResponseError"
    /\ socket_timeout.some
    /\ "receive" \in suspended

\* the locals of every task, the current one included
AllLocals ==
    [t \in DOMAIN parked \cup {cur} |-> IF t = cur THEN Locals ELSE parked[t]]

\* C11: under every interleaving of the calls of several tasks on one
\* Client, every exchange whose conn is open holds a socket of its own,
\* bound by its task and held by no other exchange; every operation on a
\* socket (bind, connect, send, recv) is done by the task that bound it, so
\* a datagram received from a socket is received by its owner; and a socket
\* is closed only by the task that bound it.
C11_OwnSocket ==
    /\ [](/\ \A u \in uses : u[1] = u[2]
          /\ \A s1, s2 \in sockets : s1.id = s2.id => s1 = s2
          /\ \A t \in DOMAIN AllLocals :
                AllLocals[t].conn = "open" =>
                    /\ OwnerOf(AllLocals[t].sock) = t
                    /\ \A u \in DOMAIN AllLocals :
                          (u # t /\ AllLocals[u].conn = "open") =>
                              AllLocals[u].sock # AllLocals[t].sock
          /\ \A s \in sockets :
                /\ s.owner \in DOMAIN AllLocals
                /\ AllLocals[s.owner].conn = "open"
                /\ AllLocals[s.owner].sock = s.id)
    /\ [][\A s \in sockets \ sockets' : s.owner = cur]_vars

\* two exchanges wait for their replies at once, each on its own socket, and
\* one has already received a reply
C11_Witness ==
    /\ pc = "Sent"
    /\ io = "pending"
    /\ \E t \in DOMAIN parked :
          /\ parked[t].pc = "Received"
          /\ parked[t].sock # sock
    /\ Cardinality(sockets) = 2
    /\ uses = {<<1, 1>>, <<2, 2>>}

\* C12: no step of any send_packet call changes connection_timeout or
\* socket_timeout, and nothing is carried from one exchange to the next: a
\* call starts from the same state whatever the number and the outcomes of
\* the calls before it, with no socket left open, no timer, no data and no
\* result of an earlier exchange.
C12_ClientImmutable ==
    /\ [][/\ connection_timeout' = connection_timeout
          /\ socket_timeout' = socket_timeout]_vars
    /\ [](pc = "Created" =>
            /\ local_addr = LocalAddrFor(remote_addr)
            /\ io = "idle"
            /\ timer = NoTimer
            /\ conn = "none"
            /\ sock = 0
            /\ sockets = {}
            /\ request_data = NoBytes
            /\ response = NoBytes
            /\ outcome = NoOutcome
            /\ steps = <<>>
            /\ results = <<>>
            /\ wire = <<>>
            /\ delivered = <<>>
            /\ closes = 0
            /\ decode_args = <<>>
            /\ suspended = {}
            /\ late = {})

\* a second call has started on the Client after the first one ended
C12_Witness ==
    /\ calls = 2
    /\ pc = "Created"
    /\ now = 0
    /\ uses = {<<1, 1>>}

\* C13 as stated: ConnectionTimeoutError is produced only while the
\* association is pending, and SocketTimeoutError only in state Sent, after
\* the request datagram has been sent and while the reply is awaited.
C13_Original ==
    [][outcome = NoOutcome =>
         /\ (outcome'.kind = "ConnectionTimeoutError" =>
                pc = "Bound" /\ io = "pending")
         /\ (outcome'.kind = "SocketTimeoutError" =>
                pc = "Sent" /\ io = "pending" /\ Len(wire) = 1)
      ]_vars

\* C13, amended: ConnectionTimeoutError is produced only while the
\* association is pending, and SocketTimeoutError only while the request
\* step is pending: in state Encoded while the send is pending and nothing
\* has been transmitted, or in state Sent while the reply is awaited.
C13_TimersGuardPendingSteps ==
    [][outcome = NoOutcome =>
         /\ (outcome'.kind = "ConnectionTimeoutError" =>
                /\ pc = "Bound" /\ io = "pending"
                /\ steps = <<"bind", "associate">>)
         /\ (outcome'.kind = "SocketTimeoutError" =>
                /\ pc \in {"Encoded", "Sent"} /\ io = "pending"
                /\ (pc = "Encoded" =>
                      /\ steps = <<"bind", "associate", "encode", "send">>
                      /\ wire = <<>>)
                /\ (pc = "Sent" =>
                      /\ steps = <<"bind", "associate", "encode", "send",
                                   "receive">>
                      /\ Len(wire) = 1))
      ]_vars

\* the socket timeout elapsed over a pending send: nothing was transmitted
C13_Witness ==
    /\ outcome.kind = "SocketTimeoutError"
    /\ steps = <<"bind", "associate", "encode", "send">>
    /\ wire = <<>>
    /\ "send" \in suspended

\* C14: the two timeouts are separate windows.  A connection timer exists
\* only while the association is pending and a socket timer only from the
\* start of the request step until its end; each is armed when its step
\* starts, with a deadline of its own duration after that moment, whatever
\* time the call has already taken, and is not changed while it runs; so no
\* timer is in force during bind, encode or decode, and no timeout error is
\* produced there or after the reply has been received.
C14_SeparateWindows ==
    /\ [](/\ (timer.kind = "connection" =>
                /\ pc = "Bound" /\ io = "pending"
                /\ connection_timeout.some)
          /\ (timer.kind = "socket" =>
                /\ pc \in {"Encoded", "Sent"}
                /\ "send" \in Range(steps)
                /\ socket_timeout.some)
          /\ (pc \in {"Idle", "Created", "Associated", "Received", "Decoded",
                      "Failed"} => timer = NoTimer))
    /\ [][/\ (timer.kind # "connection" /\ timer'.kind = "connection" =>
                /\ steps' = Append(steps, "associate")
                /\ timer'.at = now + connection_timeout.d)
          /\ (timer.kind # "socket" /\ timer'.kind = "socket" =>
                /\ steps' = Append(steps, "send")
                /\ timer'.at = now + socket_timeout.d)
          /\ (timer.kind # "none" /\ timer'.kind # "none" => timer' = timer)
          /\ (outcome = NoOutcome
                /\ outcome'.kind \in {"ConnectionTimeoutError",
                                      "SocketTimeoutError"} =>
                pc \notin {"Created", "Associated", "Received"})
         ]_vars

\* the call has already taken longer than socket_timeout, all of it before
\* the request step, and the socket timer has not elapsed
C14_Witness ==
    /\ pc = "Sent"
    /\ io = "pending"
    /\ timer.kind = "socket"
    /\ socket_timeout.d > 0
    /\ timer.since > socket_timeout.d
    /\ now = timer.since
    /\ ~Expired

\* C15: once send_packet has returned ConnectionTimeoutError or
\* SocketTimeoutError, a late completion of the abandoned operation (the
\* association, the send, or the arrival of a reply) finds the socket
\* closed, leaves the returned outcome as it is and starts no encode, send,
\* receive or decode: nothing of the exchange changes after its end.
C15_AbandonedAfterTimeout ==
    /\ [](late # {} =>
            /\ pc = "Failed"
            /\ outcome.kind \in {"ConnectionTimeoutError",
                                 "SocketTimeoutError"}
            /\ conn = "closed"
            /\ OwnerOf(sock) = 0
            /\ late = {steps[Len(steps)]})
    /\ [][(outcome.kind \in {"ConnectionTimeoutError", "SocketTimeoutError"}
             /\ calls' = calls) =>
            /\ outcome' = outcome
            /\ pc' = pc
            /\ steps' = steps
            /\ results' = results
            /\ wire' = wire
            /\ delivered' = delivered
            /\ response' = response
            /\ decode_args' = decode_args
            /\ conn' = conn
         ]_vars

\* a reply arrived after the socket timeout had been returned
C15_Witness ==
    /\ outcome.kind = "SocketTimeoutError"
    /\ late = {"receive"}
    /\ decode_args = <<>>
    /\ delivered = <<>>

\* the association step, once started, is over
AssocEnded == "associate" \in Range(steps) /\ pc # "Bound"

\* the send+receive step, once started, is over
RequestEnded == "send" \in Range(steps) /\ pc \notin {"Encoded", "Sent"}

\* C16 as stated: with connection_timeout = Some(0) the association step
\* ends in ConnectionTimeoutError, and with socket_timeout = Some(0) the
\* send+receive step ends in SocketTimeoutError.
C16_Original ==
    /\ (connection_timeout = Some(0) /\ AssocEnded =>
            outcome.kind = "ConnectionTimeoutError")
    /\ (socket_timeout = Some(0) /\ RequestEnded =>
            outcome.kind = "SocketTimeoutError")

\* C16, amended: a zero duration is accepted and not clamped: its deadline
\* is the moment the step starts, so a step that suspends (an operation not
\* ready at its first poll) ends in its timeout error with no time passing:
\* ConnectionTimeoutError for the association with connection_timeout =
\* Some(0), SocketTimeoutError for the send+receive step with
\* socket_timeout = Some(0).  A step whose operations are ready at their
\* first poll completes normally even with a zero duration.
C16_ZeroTimeoutOnSuspend ==
    /\ (connection_timeout = Some(0) =>
            /\ (pc = "Bound" /\ io = "pending" =>
                    Expired /\ timer.at = timer.since)
            /\ (AssocEnded /\ "associate" \in suspended =>
                    outcome.kind = "ConnectionTimeoutError"))
    /\ (socket_timeout = Some(0) =>
            /\ (pc \in {"Encoded", "Sent"} /\ io = "pending" =>
                    Expired /\ timer.at = timer.since)
            /\ (RequestEnded /\ suspended \cap {"send", "receive"} # {} =>
                    outcome.kind = "SocketTimeoutError"))

\* with a zero socket timeout the wait for the reply timed out at once
C16_Witness ==
    /\ socket_timeout = Some(0)
    /\ OkSteps = <<"bind", "associate", "encode", "send">>
    /\ "receive" \in suspended
    /\ outcome.kind = "SocketTimeoutError"
    /\ now = 0

\* C17: the bytes handed to Packet::decode are the bytes of the one
\* datagram received, unchanged, in the length the receive reported: the
\* length of the datagram, or 65507 for a longer one; they are never padded
\* with the rest of the buffer and never longer than 65507 bytes.
C17_ReceivedBytesOnly ==
    /\ (pc = "Received" =>
            /\ Len(delivered) = 1
            /\ response.len <= 65507
            /\ response.len <= delivered[1].len)
    /\ \A i \in DOMAIN decode_args :
            LET bytes == decode_args[i][1]
                dg == delivered[1]
            IN /\ Len(delivered) = 1
               /\ bytes.len = IF dg.len <= 65507 THEN dg.len ELSE 65507
               /\ bytes.body = dg.body
               /\ bytes.auth = dg.auth

\* a reply of 20 bytes was handed to the decoder as 20 bytes
C17_Witness ==
    /\ Len(decode_args) = 1
    /\ delivered[1].len = 20
    /\ decode_args[1][1].len = 20

\* C18: the local address of an exchange is the wildcard 0.0.0.0 with port 0
\* exactly when the remote address is IPv4, and the wildcard [::] with port 0
\* otherwise; it is the address the socket of the exchange is bound to.
C18_LocalAddrFamily ==
    pc # "Idle" =>
        /\ local_addr.port = 0
        /\ (local_addr.ip = "0.0.0.0" <=> remote_addr = "v4")
        /\ (local_addr.ip = "[::]" <=> remote_addr # "v4")
        /\ \A s \in sockets :
                s.id = sock /\ s.owner = cur => s.local = local_addr

\* a socket was bound to [::]:0 for an IPv6 remote
C18_Witness ==
    /\ remote_addr = "v6"
    /\ "bind" \in Range(OkSteps)
    /\ \E s \in sockets :
            s.id = sock /\ s.local = [ip |-> "[::]", port |-> 0]

\* C19: with both timeouts configured every call that was started ends in
\* Decoded or Failed, whatever the peer does, provided time passes and expired
\* timers fire; with socket_timeout = None an exchange waiting for the reply
\* has no timer, and it leaves Sent only by a reply or a receive failure, so
\* without either it waits in Sent forever.
C19_Termination ==
    /\ (connection_timeout # None /\ socket_timeout # None /\ pc = "Created")
            ~> Terminal
    /\ [](socket_timeout = None /\ pc = "Sent" /\ io = "pending" =>
            /\ timer = NoTimer
            /\ ~Expired
            /\ ~ENABLED SocketTimeout)
    /\ [][socket_timeout = None /\ pc = "Sent" /\ io = "pending"
                /\ pc' # "Sent" =>
            \/ pc' = "Received" /\ Len(delivered') = 1
            \/ pc' = "Failed"
                /\ outcome'.kind = "FailedReceivingResponseError"]_vars

\* both timeouts configured, the server never replied, and the call ended
C19_Witness ==
    /\ connection_timeout # None
    /\ socket_timeout # None
    /\ "receive" \in suspended
    /\ delivered = <<>>
    /\ pc = "Failed"
    /\ outcome.kind = "SocketTimeoutError"
====
